---- MODULE Spec2Model ----
(***************************************************************************)
(* AsyncModal (src/src/async-modal.ts): one page with its document, the    *)
(* ambient controller window.asyncModal, a caller-constructed controller,  *)
(* the browser's timers and the document-level click listener.             *)
(*                                                                         *)
(* Time is counted in milliseconds and advances in steps of DeferMs, the   *)
(* shortest delay the program schedules.  A timer runs when its delay has  *)
(* elapsed; timers due in the same step run in either order (timer drift). *)
(* A continuation behind an await is a microtask: it runs before any timer *)
(* and before any user input, but after the caller's synchronous code.     *)
(*                                                                         *)
(* A text is a tuple of strings: <<L, k1, .., kn>> is the string of the    *)
(* dotted key k1...kn in the table of language L, <<"key", k1, .., kn>> is *)
(* the dotted key itself, <<"caller", x>> a string the caller supplied and *)
(* <<>> the empty string.  In the countdown label a cancel button's text   *)
(* is identified by the dialog that supplied it.                           *)
(***************************************************************************)
EXTENDS Integers, Sequences, FiniteSets, TLC

MaxShows == 2
MaxSeconds == 2
MaxSettingsShows == 1

DeferMs == 100
TickMs == 1000
DefaultSeconds == 15

Instances == {"ambient", "own"}
Buttons == {"cancel", "continue", "settings", "help", "danger"}
ModalResult == {"continue", "cancel", "settings", "help", "danger"}
Dialogs == 1..MaxShows

\* number | null: <<>> is null, <<n>> the number n
Null == <<>>

Has(o, k) == k \in DOMAIN o

\* options.k || fallback, for a text or a sound path
Given(o, k) == Has(o, k) /\ o[k] # <<>>

\* options.k || fallback, for a language code, a theme or an icon name
GivenCode(o, k) == Has(o, k) /\ o[k] # ""

Max0(n) == IF n > 0 THEN n ELSE 0

VARIABLES
    ctl,        \* per controller: currentModal, currentTimeout, currentInterval,
                \* remainingSeconds, currentResolve, defaultTimeout
    dom,        \* the dialog overlays in the document, in document order
    dlg,        \* per show call: the rendered dialog element
    timers,     \* the browser's pending setTimeout / setInterval timers
    promise,    \* per show call: "none", "pending" or the value it resolved with
    calls,      \* per show call: how often its resolve function was invoked
    microtasks, \* the continuations of show calls suspended at their await
    prefersDark, \* matchMedia('(prefers-color-scheme: dark)').matches
    nshows,     \* show calls made so far
    event,      \* the operation that produced the current state: its name,
                \* the show call and button it concerned, for show and for
                \* user input the options of that show call, and whether
                \* it was the first click, toggle or programmatic close, and
                \* whether the operation threw
    touched,    \* some click, checkbox toggle or programmatic close happened
    hasDocument, \* typeof document !== 'undefined' where the script runs
    given       \* the options the caller constructed its own controller with

vars == <<ctl, dom, dlg, timers, promise, calls, microtasks, prefersDark,
          nshows, event, touched, hasDocument, given>>

\* the part of the state the program's own code reads and writes
St == [ctl |-> ctl, dom |-> dom, dlg |-> dlg, timers |-> timers,
       promise |-> promise, calls |-> calls, microtasks |-> microtasks,
       prefersDark |-> prefersDark, hasDocument |-> hasDocument]

----------------------------------------------------------------------------
(* Locales                                                                 *)

\* the languages with a table in ../locales that this development uses,
\* and a code without one
BuiltIn == {"en", "tr", "de"}
Languages == BuiltIn \cup {"xx"}

\* the dotted keys the program looks up, as their segments
LocaleKeys ==
    {<<"defaults", "title">>, <<"defaults", "message">>,
     <<"defaults", "confirmationText">>,
     <<"buttons", "continue">>, <<"buttons", "cancel">>,
     <<"buttons", "settings">>, <<"buttons", "help">>,
     <<"titles", "confirmation">>, <<"titles", "dangerous">>,
     <<"titles", "workingTimeViolation">>, <<"titles", "responsibility">>,
     <<"messages", "workingTimeViolation">>, <<"messages", "deleteConfirm">>,
     <<"messages", "criticalAction">>, <<"timeout", "seconds">>}

\* a locale table: its string leaves by key path
Table(L, keys) == [k \in keys |-> <<L>> \o k]

\* a table of its own for every code, also for one without locale data
getLocaleOwn(lang) == Table(lang, LocaleKeys)

\* getLocale(lang): the built-in table, the English one for any other code
getLocale(lang) ==
    IF lang \in BuiltIn THEN Table(lang, LocaleKeys) ELSE Table("en", LocaleKeys)

IsPrefix(p, q) == Len(p) <= Len(q) /\ SubSeq(q, 1, Len(p)) = p

\* a walk that never misses a segment
WalksAlways(table, key) == TRUE

\* `k in value` succeeded for every segment of the key: each proper prefix
\* of the key is an object of the table and each prefix is present in it
Walks(table, key) ==
    \A j \in 1..Len(key) :
        /\ \/ j = 1
           \/ \E q \in DOMAIN table :
                 IsPrefix(SubSeq(key, 1, j - 1), q) /\ Len(q) > j - 1
        /\ \E q \in DOMAIN table : IsPrefix(SubSeq(key, 1, j), q)

KeyItself(key) == <<"key">> \o key

\* the value the walk ends at when it is a string, otherwise the key
StringAt(table, key) == IF key \in DOMAIN table THEN table[key] ELSE KeyItself(key)

\* a lookup that ignores the language it is asked for
t_GlobalOnly(locales, currentLanguage, key, lang) ==
    LET en     == IF "en" \in DOMAIN locales THEN locales["en"] ELSE Table("en", {})
        locale == IF currentLanguage \in DOMAIN locales THEN locales[currentLanguage]
                                                        ELSE en
    IN  IF Walks(locale, key) THEN StringAt(locale, key)
        ELSE IF Walks(en, key) THEN StringAt(en, key)
        ELSE KeyItself(key)

\* t(key, lang) over the loaded locales; lang "" stands for null
t_(locales, currentLanguage, key, lang) ==
    LET code   == IF lang # "" THEN lang ELSE currentLanguage
        en     == IF "en" \in DOMAIN locales THEN locales["en"] ELSE Table("en", {})
        locale == IF code \in DOMAIN locales THEN locales[code] ELSE en
    IN  IF Walks(locale, key) THEN StringAt(locale, key)
        ELSE IF Walks(en, key) THEN StringAt(en, key)
        ELSE KeyItself(key)

\* loading a language also makes it the global language
loadLocaleAndSwitch(c, lang) ==
    [c EXCEPT !.currentLanguage = lang,
              !.locales = [l \in DOMAIN @ \cup {lang} |->
                              IF l = lang THEN getLocale(lang) ELSE @[l]]]

\* loadLocale(lang) up to the promise it returns
loadLocale(c, lang) ==
    [c EXCEPT !.locales = [l \in DOMAIN @ \cup {lang} |->
                              IF l = lang THEN getLocale(lang) ELSE @[l]]]

\* setLanguage that does not load the language's table
setLanguageUnloaded(c, lang) == [c EXCEPT !.currentLanguage = lang]

\* the synchronous part of setLanguage(lang)
setLanguage(c, lang) == loadLocale([c EXCEPT !.currentLanguage = lang], lang)

----------------------------------------------------------------------------
(* Themes                                                                  *)

ThemeValues == {"dark", "light", "auto"}

\* a theme passed through as it is, 'auto' included
_resolveThemeAsGiven(theme, dark) == IF theme # "" THEN theme ELSE "light"

_resolveTheme(theme, dark) ==
    IF theme = "auto" THEN (IF dark THEN "dark" ELSE "light")
    ELSE IF theme # "" THEN theme ELSE "light"

\* the deprecated flag consulted before the per-call theme
themeSettingFlagFirst(o, c) ==
    IF Has(o, "darkTheme") THEN (IF o.darkTheme THEN "dark" ELSE "light")
    ELSE IF GivenCode(o, "theme") THEN o.theme ELSE c.theme

\* the theme setting show picks before resolving it
themeSetting(o, c) ==
    LET t0 == IF GivenCode(o, "theme") THEN o.theme ELSE ""
        t1 == IF t0 = "" /\ Has(o, "darkTheme")
              THEN (IF o.darkTheme THEN "dark" ELSE "light")
              ELSE t0
    IN  IF t1 = "" THEN c.theme ELSE t1

\* setTheme without its validation
setThemeUnchecked(c, theme) == [ctl |-> [c EXCEPT !.theme = theme], threw |-> FALSE]

\* setTheme(theme): the controller afterwards and whether it threw
setTheme(c, theme) ==
    IF theme \notin ThemeValues
    THEN [ctl |-> c, threw |-> TRUE]
    ELSE [ctl |-> [c EXCEPT !.theme = theme], threw |-> FALSE]

getTheme(c) == c.theme

setSoundPath(c, path) == [c EXCEPT !.soundPath = <<path>>]

----------------------------------------------------------------------------
(* Option resolution                                                       *)

\* the timeout resolved by show before the configuration is assembled
resolveTimeout(o, defaultTimeout) ==
    LET t0 == IF Has(o, "timeout") THEN <<o.timeout>> ELSE Null
        t1 == IF t0 = Null /\ Has(o, "autoDismissTimeout") /\ o.autoDismissTimeout
              THEN IF Has(o, "autoDismissTimeoutSeconds") /\ o.autoDismissTimeoutSeconds # 0
                   THEN <<o.autoDismissTimeoutSeconds>>
                   ELSE <<DefaultSeconds>>
              ELSE t0
    IN  IF t1 = Null THEN defaultTimeout ELSE t1

\* the fields of the configuration literal that precede `...options`, for
\* the resolved language and the resolved timeout
defaultConfig(o, c, modalLanguage, timeout) ==
    LET T(key) == t_(c.locales, c.currentLanguage, key, modalLanguage)
    IN  [title |-> IF Given(o, "title") THEN o.title ELSE T(<<"defaults", "title">>),
         message |->
             IF Given(o, "message") THEN o.message ELSE T(<<"defaults", "message">>),
         showCancel |-> IF Has(o, "showCancel") THEN o.showCancel ELSE TRUE,
         showContinue |-> IF Has(o, "showContinue") THEN o.showContinue ELSE TRUE,
         showSettings |-> IF Has(o, "showSettings") THEN o.showSettings ELSE FALSE,
         showHelp |-> IF Has(o, "showHelp") THEN o.showHelp ELSE FALSE,
         showDanger |-> IF Has(o, "showDanger") THEN o.showDanger ELSE FALSE,
         disabled |-> IF Has(o, "disabled") THEN o.disabled ELSE FALSE,
         requireConfirmation |->
             IF Has(o, "requireConfirmation") THEN o.requireConfirmation ELSE TRUE,
         confirmationText |->
             IF Given(o, "confirmationText") THEN o.confirmationText
             ELSE T(<<"defaults", "confirmationText">>),
         icon |-> IF GivenCode(o, "icon") THEN o.icon ELSE "question",
         confirmButtonText |->
             IF Given(o, "confirmButtonText") THEN o.confirmButtonText
             ELSE T(<<"buttons", "continue">>),
         cancelButtonText |->
             IF Given(o, "cancelButtonText") THEN o.cancelButtonText
             ELSE T(<<"buttons", "cancel">>),
         playSound |-> IF Has(o, "playSound") THEN o.playSound ELSE FALSE,
         autoDismissTimeout |-> timeout # Null /\ timeout[1] > 0,
         autoDismissTimeoutSeconds |->
             IF timeout = Null \/ timeout[1] = 0 THEN DefaultSeconds ELSE timeout[1],
         soundPath |-> IF Given(o, "soundPath") THEN o.soundPath ELSE c.soundPath,
         language |-> modalLanguage]

\* the deprecated timeout aliases dropped: neither consulted nor copied
modalConfigNoLegacy(o, c, modalLanguage, dark) ==
    LET t0 == IF Has(o, "timeout") THEN <<o.timeout>> ELSE Null
        timeout == IF t0 = Null THEN c.defaultTimeout ELSE t0
    IN  [theme |-> _resolveTheme(themeSetting(o, c), dark)]
            @@ defaultConfig(o, c, modalLanguage, timeout)

\* the configuration show assembles: the computed fields, then `...options`
\* spread over them, so every key present in the options wins, then the
\* resolved theme
modalConfig(o, c, modalLanguage, dark) ==
    LET timeout == resolveTimeout(o, c.defaultTimeout)
    IN  [theme |-> _resolveTheme(themeSetting(o, c), dark)]
            @@ o @@ defaultConfig(o, c, modalLanguage, timeout)

----------------------------------------------------------------------------
(* The document                                                            *)

ShowFlag(b) ==
    CASE b = "cancel" -> "showCancel"
      [] b = "continue" -> "showContinue"
      [] b = "settings" -> "showSettings"
      [] b = "help" -> "showHelp"
      [] b = "danger" -> "showDanger"

\* the buttons createModalHtml renders for a configuration
Rendered(cfg) == {b \in Buttons : cfg[ShowFlag(b)]}

NoOptions == [k \in {} |-> TRUE]

\* a show call that has no element in the document
NoDialog ==
    [owner |-> "none", opts |-> NoOptions, config |-> NoOptions, buttons |-> {},
     disabled |-> {}, checkbox |-> FALSE, checked |-> FALSE, toggled |-> FALSE,
     listener |-> FALSE, originalText |-> 0, label |-> <<>>, suffix |-> <<>>,
     text |-> NoOptions, themeClass |-> "", sound |-> <<>>]

\* the texts createModalHtml writes into the element: the title, the
\* message, the checkbox text and the label of each rendered button
RenderedText(c, cfg) ==
    LET parts == {"title", "message"}
                   \cup (IF cfg.requireConfirmation THEN {"confirmationText"} ELSE {})
                   \cup Rendered(cfg)
        T(key) == t_(c.locales, c.currentLanguage, key, cfg.language)
    IN  [p \in parts |->
            CASE p = "title" -> cfg.title
              [] p = "message" -> cfg.message
              [] p = "confirmationText" -> cfg.confirmationText
              [] p = "cancel" -> cfg.cancelButtonText
              [] p = "continue" -> cfg.confirmButtonText
              [] p = "settings" -> T(<<"buttons", "settings">>)
              [] p = "help" -> T(<<"buttons", "help">>)
              [] p = "danger" -> cfg.confirmButtonText]

ThemeClass(cfg) ==
    CASE cfg.theme = "dark" -> "dark-theme"
      [] cfg.theme = "light" -> "light-theme"
      [] OTHER -> ""

\* the continue button rendered with the disabled attribute in every dialog
createModalHtmlGated(c, i, o, cfg) ==
    [owner |-> i, opts |-> o, config |-> cfg, buttons |-> Rendered(cfg),
     disabled |-> Rendered(cfg) \cap {"continue"},
     checkbox |-> cfg.requireConfirmation, checked |-> FALSE, toggled |-> FALSE,
     listener |-> FALSE, originalText |-> 0, label |-> <<>>, suffix |-> <<>>,
     text |-> RenderedText(c, cfg), themeClass |-> ThemeClass(cfg),
     sound |-> <<>>]

\* the element createModalHtml describes: the continue button carries the
\* disabled attribute when confirmation is required
createModalHtml(c, i, o, cfg) ==
    [owner |-> i, opts |-> o, config |-> cfg, buttons |-> Rendered(cfg),
     disabled |-> IF cfg.requireConfirmation THEN Rendered(cfg) \cap {"continue"} ELSE {},
     checkbox |-> cfg.requireConfirmation, checked |-> FALSE, toggled |-> FALSE,
     listener |-> FALSE, originalText |-> 0, label |-> <<>>, suffix |-> <<>>,
     text |-> RenderedText(c, cfg), themeClass |-> ThemeClass(cfg),
     sound |-> <<>>]

\* document.querySelector: the first dialog of the document, in document
\* order, that has a match; 0 when there is none
FirstIn(S, matches) ==
    LET ks == {k \in 1..Len(S.dom) : S.dom[k] \in matches}
    IN  IF ks = {} THEN 0 ELSE S.dom[CHOOSE k \in ks : \A j \in ks : k <= j]

InDom(S) == {S.dom[k] : k \in 1..Len(S.dom)}

FirstOverlay(S) == IF Len(S.dom) = 0 THEN 0 ELSE S.dom[1]
FirstButton(S, b) == FirstIn(S, {d \in InDom(S) : b \in S.dlg[d].buttons})
FirstCheckbox(S) == FirstIn(S, {d \in InDom(S) : S.dlg[d].checkbox})

RemoveFrom(s, d) == SelectSeq(s, LAMBDA x : x # d)

----------------------------------------------------------------------------
(* Timers and close                                                        *)

\* a pending timer: its kind, the show call on whose behalf it was created
\* (whose cancelButtonText its closure captured), the controller its callback
\* is bound to, the delay left and the timeout seconds its closure captured;
\* a controller's handle for a timer is the timer's d
Timer(kind, d, i, due, secs) ==
    [kind |-> kind, d |-> d, owner |-> i, due |-> due, secs |-> secs]

\* clears the deadline handle and leaves the interval running
clearOnlyTimeout(S, i) ==
    LET c == S.ctl[i]
    IN  [S EXCEPT
          !.timers = {t \in S.timers :
                        ~(t.kind = "deadline" /\ c.currentTimeout # 0
                            /\ t.d = c.currentTimeout /\ t.owner = i)},
          !.ctl[i].currentTimeout = 0]

clearAutoDismissTimeout(S, i) ==
    LET c == S.ctl[i]
    IN  [S EXCEPT
          !.timers = {t \in S.timers :
                        /\ ~(t.kind = "deadline" /\ c.currentTimeout # 0
                               /\ t.d = c.currentTimeout /\ t.owner = i)
                        /\ ~(t.kind = "tick" /\ c.currentInterval # 0
                               /\ t.d = c.currentInterval /\ t.owner = i)},
          !.ctl[i].currentTimeout = 0,
          !.ctl[i].currentInterval = 0]

\* an element that stays in the document
RemoveElementKept(S, d) == S

\* currentModal.remove()
RemoveElement(S, d) ==
    [S EXCEPT !.dom = RemoveFrom(S.dom, d), !.dlg[d] = NoDialog]

\* invoking the resolve function of show call p: only the first invocation
\* settles the promise
Resolve(S, p, action) ==
    [S EXCEPT !.calls[p] = @ + 1,
              !.promise[p] = IF @ = "pending" THEN action ELSE @]

\* close that keeps the resolver reference after invoking it
closeKeepResolve(S, i, action) ==
    LET S1 == clearAutoDismissTimeout(S, i)
        m  == S1.ctl[i].currentModal
        S2 == IF m # 0
              THEN [RemoveElement(S1, m) EXCEPT !.ctl[i].currentModal = 0]
              ELSE S1
        r  == S2.ctl[i].currentResolve
    IN  IF r # 0 THEN Resolve(S2, r, action) ELSE S2

close(S, i, action) ==
    LET S1 == clearAutoDismissTimeout(S, i)
        m  == S1.ctl[i].currentModal
        S2 == IF m # 0
              THEN [RemoveElement(S1, m) EXCEPT !.ctl[i].currentModal = 0]
              ELSE S1
        r  == S2.ctl[i].currentResolve
    IN  IF r # 0
        THEN [Resolve(S2, r, action) EXCEPT !.ctl[i].currentResolve = 0]
        ELSE S2

\* the cancel button of dialog d shows `text (seconds suffix)`, the suffix
\* being this.t('timeout.seconds') of controller i
updateCancelButtonText(S, i, d, text, seconds) ==
    [S EXCEPT !.dlg[d].label = <<text, seconds>>,
              !.dlg[d].suffix = t_(S.ctl[i].locales, S.ctl[i].currentLanguage,
                                   <<"timeout", "seconds">>, "")]

startAutoDismissTimeout(S, i, d, timeoutSeconds, cancelButtonText) ==
    LET S1 == clearAutoDismissTimeout(S, i)
        cb == FirstButton(S1, "cancel")
        S2 == IF cb # 0
              THEN updateCancelButtonText(
                       [S1 EXCEPT !.dlg[cb].originalText = cancelButtonText],
                       i, cb, cancelButtonText, S1.ctl[i].remainingSeconds)
              ELSE S1
    IN  [S2 EXCEPT
          !.timers = @ \cup {Timer("tick", d, i, TickMs, 0),
                             Timer("deadline", d, i, Max0(timeoutSeconds * 1000),
                                   timeoutSeconds)},
          !.ctl[i].currentInterval = d,
          !.ctl[i].currentTimeout = d]

\* the setInterval callback of startAutoDismissTimeout
tickCallback(S, i, cancelButtonText) ==
    LET S1 == [S EXCEPT !.ctl[i].remainingSeconds = @ - 1]
        cb == FirstButton(S1, "cancel")
    IN  IF S1.ctl[i].remainingSeconds > 0
        THEN IF cb # 0
             THEN updateCancelButtonText(S1, i, cb,
                      IF S1.dlg[cb].originalText # 0 THEN S1.dlg[cb].originalText
                                                     ELSE cancelButtonText,
                      S1.ctl[i].remainingSeconds)
             ELSE S1
        ELSE close(clearAutoDismissTimeout(S1, i), i, "cancel")

\* a deadline that resolves with 'continue'
deadlineCallbackContinue(S, i) == close(clearAutoDismissTimeout(S, i), i, "continue")

\* the setTimeout callback of startAutoDismissTimeout
deadlineCallback(S, i) == close(clearAutoDismissTimeout(S, i), i, "cancel")

----------------------------------------------------------------------------
(* Buttons and the confirmation checkbox                                   *)

OtherButtons == {"settings", "help", "danger"}

\* disableAllButtons that leaves every button as it is
disableNoButtons(S) == S

disableAllButtons(S) ==
    [S EXCEPT !.dlg = [d \in Dialogs |->
        IF d \in InDom(S) THEN [S.dlg[d] EXCEPT !.disabled = S.dlg[d].buttons]
                          ELSE S.dlg[d]]]

\* the selector of the enabled buttons also matches the continue button
disableActionButtonsWide(S) ==
    [S EXCEPT !.dlg = [d \in Dialogs |->
        IF d \in InDom(S)
        THEN [S.dlg[d] EXCEPT !.disabled = @ \ (OtherButtons \cup {"continue"})]
        ELSE S.dlg[d]]]

disableActionButtons(S) ==
    LET cb == FirstButton(S, "continue")
        S1 == IF cb # 0 THEN [S EXCEPT !.dlg[cb].disabled = @ \cup {"continue"}] ELSE S
    IN  [S1 EXCEPT !.dlg = [d \in Dialogs |->
            IF d \in InDom(S1) THEN [S1.dlg[d] EXCEPT !.disabled = @ \ OtherButtons]
                               ELSE S1.dlg[d]]]

toggleActionButtons(S, enabled) ==
    LET cb == FirstButton(S, "continue")
        S1 == IF cb # 0
              THEN [S EXCEPT !.dlg[cb].disabled =
                        IF enabled THEN @ \ {"continue"} ELSE @ \cup {"continue"}]
              ELSE S
    IN  [S1 EXCEPT !.dlg = [d \in Dialogs |->
            IF d \in InDom(S1) THEN [S1.dlg[d] EXCEPT !.disabled = @ \ OtherButtons]
                               ELSE S1.dlg[d]]]

setupConfirmationCheckbox(S) ==
    LET cb == FirstCheckbox(S)
    IN  IF cb # 0 THEN [S EXCEPT !.dlg[cb].listener = TRUE] ELSE S

----------------------------------------------------------------------------
(* show                                                                    *)

DefaultSoundPath == <<"./sound/notification_tone.wav">>

\* playSound(customPath) for dialog d: the path the Audio is created with
playSound(S, i, d, customPath) ==
    LET p0 == IF customPath # Null THEN customPath ELSE S.ctl[i].soundPath
    IN  [S EXCEPT !.dlg[d].sound = IF p0 # Null THEN p0 ELSE DefaultSoundPath]

\* the executor from the insertion of the element on, with a document
rendering(S1, i, o, d, cfg) ==
    LET S2 == [S1 EXCEPT !.dom = Append(@, d),
                         !.dlg[d] = createModalHtml(S1.ctl[i], i, o, cfg)]
        S3a == [S2 EXCEPT !.ctl[i].currentModal = FirstOverlay(S2)]
        S3 == IF cfg.playSound THEN playSound(S3a, i, d, cfg.soundPath) ELSE S3a
        S4 == IF cfg.requireConfirmation
              THEN [disableActionButtons(S3) EXCEPT
                       !.timers = @ \cup {Timer("setup", d, i, DeferMs, 0)}]
              ELSE S3
        S5 == IF cfg.disabled THEN disableAllButtons(S4) ELSE S4
    IN  IF cfg.autoDismissTimeout
        THEN [S5 EXCEPT
                !.ctl[i].remainingSeconds = cfg.autoDismissTimeoutSeconds,
                !.timers = @ \cup {Timer("arm", d, i, DeferMs,
                                         cfg.autoDismissTimeoutSeconds)}]
        ELSE S5

\* an executor that never asks for the colour scheme of the operating system
executorLightOnly(S, i, o, d, modalLanguage) ==
    rendering([S EXCEPT !.ctl[i].currentResolve = d], i, o, d,
              modalConfig(o, S.ctl[i], modalLanguage, FALSE))

\* the promise executor of show call d on controller i with options o, for
\* the language show resolved when it was called; the Error it throws
\* without a document rejects the promise
executor(S, i, o, d, modalLanguage) ==
    LET cfg == modalConfig(o, S.ctl[i], modalLanguage, S.prefersDark)
        S1 == [S EXCEPT !.ctl[i].currentResolve = d]
    IN  IF S.hasDocument THEN rendering(S1, i, o, d, cfg)
                         ELSE [S1 EXCEPT !.promise[d] = "rejected"]

\* show call d on controller i with options o, up to its first suspension:
\* a per-call language other than the global one is loaded and awaited, and
\* the executor runs as the continuation; otherwise the executor runs at once.
\* show is an async function: the call returns its promise and never throws
show(S, i, o, d) ==
    LET c == S.ctl[i]
        modalLanguage == IF GivenCode(o, "language") THEN o.language
                                                     ELSE c.currentLanguage
        S1 == [S EXCEPT !.promise[d] = "pending"]
    IN  IF GivenCode(o, "language") /\ o.language # c.currentLanguage
        THEN [S1 EXCEPT
                !.ctl[i] = loadLocale(@, o.language),
                !.microtasks = Append(@, [d |-> d, owner |-> i, o |-> o,
                                          language |-> modalLanguage])]
        ELSE executor(S1, i, o, d, modalLanguage)

Wrappers ==
    {"showWorkingTimeViolation", "showDangerousAction", "showConfirmation",
     "showConfirmationWithResponsibility"}

\* the options a convenience wrapper passes on to show: its own fields,
\* looked up when the wrapper is called, with the caller's options spread
\* over them
wrapperOptions(c, w, o) ==
    LET lang == IF GivenCode(o, "language") THEN o.language ELSE c.currentLanguage
        T(key) == t_(c.locales, c.currentLanguage, key, lang)
        Or(k, v) == IF Has(o, k) THEN o[k] ELSE v
    IN  CASE w = "showWorkingTimeViolation" ->
               o @@ [title |-> IF Given(o, "title") THEN o.title
                               ELSE T(<<"titles", "workingTimeViolation">>),
                     message |-> IF Given(o, "message") THEN o.message
                                 ELSE T(<<"messages", "workingTimeViolation">>),
                     showCancel |-> Or("showCancel", TRUE),
                     showContinue |-> Or("showContinue", TRUE),
                     showSettings |-> Or("showSettings", TRUE),
                     showHelp |-> Or("showHelp", TRUE),
                     icon |-> IF GivenCode(o, "icon") THEN o.icon ELSE "warning"]
          [] w = "showDangerousAction" ->
               o @@ [title |-> T(<<"titles", "dangerous">>),
                     message |-> IF Given(o, "message") THEN o.message
                                 ELSE T(<<"messages", "deleteConfirm">>),
                     showCancel |-> TRUE, showDanger |-> TRUE, showHelp |-> TRUE,
                     icon |-> "danger", language |-> lang]
          [] w = "showConfirmation" ->
               o @@ [title |-> T(<<"titles", "confirmation">>),
                     message |-> IF Given(o, "message") THEN o.message
                                 ELSE T(<<"defaults", "message">>),
                     showCancel |-> TRUE, showContinue |-> TRUE,
                     icon |-> "question", language |-> lang]
          [] w = "showConfirmationWithResponsibility" ->
               o @@ [title |-> T(<<"titles", "responsibility">>),
                     message |-> T(<<"messages", "criticalAction">>),
                     showCancel |-> TRUE, showContinue |-> TRUE,
                     requireConfirmation |-> TRUE,
                     confirmationText |-> T(<<"defaults", "confirmationText">>),
                     icon |-> "warning", language |-> lang]

\* wrapper w called with the options o and neither message nor confirmation
\* text as a positional argument
wrapper(S, i, w, o, d) == show(S, i, wrapperOptions(S.ctl[i], w, o), d)

\* the handler of the document's click listener for a click on button b
clickListener(S, b) ==
    IF S.ctl["ambient"].currentModal # 0
    THEN LET S1 == clearAutoDismissTimeout(S, "ambient")
             cb == FirstButton(S1, "cancel")
             S2 == IF cb # 0 /\ S1.dlg[cb].originalText # 0
                   THEN [S1 EXCEPT !.dlg[cb].label = <<S1.dlg[cb].originalText>>,
                                   !.dlg[cb].suffix = <<>>,
                                   !.dlg[cb].originalText = 0]
                   ELSE S1
         IN  close(S2, "ambient", b)
    ELSE S

----------------------------------------------------------------------------
(* Operations                                                              *)

Ev(op, d, b, o) ==
    [op |-> op, d |-> d, b |-> b, o |-> o, first |-> FALSE, threw |-> FALSE]

\* the event of a click, toggle or programmatic close
Input(op, d, b, o) ==
    [op |-> op, d |-> d, b |-> b, o |-> o, first |-> ~touched, threw |-> FALSE]

\* a constructor whose default theme is dark
constructorDark(o) ==
    [currentModal |-> 0, currentTimeout |-> 0, currentInterval |-> 0,
     remainingSeconds |-> 0, currentResolve |-> 0, defaultTimeout |-> Null,
     soundPath |-> Null, currentLanguage |-> "en", theme |-> "dark",
     locales |-> [l \in {"en"} |-> getLocale("en")]]

\* new AsyncModal(o): the fields after the constructor ran
constructor(o) ==
    LET currentLanguage == IF GivenCode(o, "language") THEN o.language ELSE "en"
    IN  [currentModal |-> 0, currentTimeout |-> 0, currentInterval |-> 0,
         remainingSeconds |-> 0, currentResolve |-> 0,
         soundPath |-> Null,
         currentLanguage |-> currentLanguage,
         theme |-> IF GivenCode(o, "theme") THEN o.theme ELSE "light",
         defaultTimeout |-> IF Has(o, "timeout") /\ o.timeout > 0
                            THEN <<o.timeout>> ELSE Null,
         locales |-> [l \in {"en", currentLanguage} |-> getLocale(l)]]

\* new AsyncModal(), as the module constructs window.asyncModal
NewController == constructor(NoOptions)

Init ==
    /\ ctl = [i \in Instances |-> NewController]
    /\ dom = <<>>
    /\ dlg = [d \in Dialogs |-> NoDialog]
    /\ timers = {}
    /\ promise = [d \in Dialogs |-> "none"]
    /\ calls = [d \in Dialogs |-> 0]
    /\ microtasks = <<>>
    /\ prefersDark = FALSE
    /\ nshows = 0
    /\ event = Ev("init", 0, "", NoOptions)
    /\ touched = FALSE
    /\ hasDocument = TRUE
    /\ given = NoOptions

Becomes(S) ==
    /\ ctl' = S.ctl
    /\ dom' = S.dom
    /\ dlg' = S.dlg
    /\ timers' = S.timers
    /\ promise' = S.promise
    /\ calls' = S.calls
    /\ microtasks' = S.microtasks
    /\ prefersDark' = S.prefersDark
    /\ UNCHANGED <<hasDocument, given>>

\* no dialog open and no resolver stored
Idle(i) == ctl[i].currentModal = 0 /\ ctl[i].currentResolve = 0

\* no show call of controller i is suspended at its await
Settled(i) == \A k \in 1..Len(microtasks) : microtasks[k].owner # i

\* show(o) on controller i, called while i is Idle (sequential reuse)
Show(i, o) ==
    /\ nshows < MaxShows
    /\ Idle(i) /\ Settled(i)
    /\ Becomes(show(St, i, o, nshows + 1))
    /\ nshows' = nshows + 1
    /\ event' = Ev("show", nshows + 1, "", o)
    /\ UNCHANGED touched

\* show(o) on controller i, called while a dialog of i is still open
ShowWhileOpen(i, o) ==
    /\ nshows < MaxShows
    /\ ctl[i].currentModal # 0 /\ Settled(i)
    /\ Becomes(show(St, i, o, nshows + 1))
    /\ nshows' = nshows + 1
    /\ event' = Ev("show", nshows + 1, "", o)
    /\ UNCHANGED touched

\* a convenience wrapper called with the options o, while i is Idle
ShowWrapper(i, w, o) ==
    /\ nshows < MaxShows
    /\ Idle(i) /\ Settled(i)
    /\ Becomes(wrapper(St, i, w, o, nshows + 1))
    /\ nshows' = nshows + 1
    /\ event' = Ev(w, nshows + 1, "", o)
    /\ UNCHANGED touched

\* the continuation of the oldest suspended show call runs
Resume ==
    /\ microtasks # <<>>
    /\ LET m == Head(microtasks)
       IN  /\ Becomes(executor([St EXCEPT !.microtasks = Tail(@)],
                               m.owner, m.o, m.d, m.language))
           /\ event' = Ev("resume", m.d, "", m.o)
    /\ UNCHANGED <<nshows, touched, hasDocument, given>>

\* the caller looks a key up with t(key, lang); lang "" stands for no
\* second argument
Translate(i, key, lang) ==
    /\ event' = Ev("t", 0, "",
                   [key |-> key, lang |-> lang,
                    result |-> t_(ctl[i].locales, ctl[i].currentLanguage, key, lang)])
    /\ UNCHANGED <<ctl, dom, dlg, timers, promise, calls, microtasks, prefersDark,
                   nshows, touched, hasDocument, given>>

\* setLanguage(lang) on a controller; nothing follows its await
SetLanguage(i, lang) ==
    /\ ctl' = [ctl EXCEPT ![i] = setLanguage(ctl[i], lang)]
    /\ event' = Ev("setLanguage", 0, lang, NoOptions)
    /\ UNCHANGED <<dom, dlg, timers, promise, calls, microtasks, prefersDark,
                   nshows, touched, hasDocument, given>>

\* loadLocale(lang) on a controller; its promise is resolved at once
LoadLocale(i, lang) ==
    /\ ctl' = [ctl EXCEPT ![i] = loadLocale(ctl[i], lang)]
    /\ event' = Ev("loadLocale", 0, lang, NoOptions)
    /\ UNCHANGED <<dom, dlg, timers, promise, calls, microtasks, prefersDark,
                   nshows, touched, hasDocument, given>>

\* setTheme(theme) on a controller, with any string as the argument
SetTheme(i, theme) ==
    /\ ctl' = [ctl EXCEPT ![i] = setTheme(ctl[i], theme).ctl]
    /\ event' = [Ev("setTheme", 0, theme, NoOptions) EXCEPT
                    !.threw = setTheme(ctl[i], theme).threw]
    /\ UNCHANGED <<dom, dlg, timers, promise, calls, microtasks, prefersDark,
                   nshows, touched, hasDocument, given>>

SetSoundPath(i, path) ==
    /\ ctl' = [ctl EXCEPT ![i] = setSoundPath(ctl[i], path)]
    /\ event' = Ev("setSoundPath", 0, path, NoOptions)
    /\ UNCHANGED <<dom, dlg, timers, promise, calls, microtasks, prefersDark,
                   nshows, touched, hasDocument, given>>

\* the user switches the colour scheme of the operating system
PreferenceChanges ==
    /\ microtasks = <<>>
    /\ prefersDark' = ~prefersDark
    /\ event' = Ev("preference", 0, "", NoOptions)
    /\ UNCHANGED <<ctl, dom, dlg, timers, promise, calls, microtasks,
                   nshows, touched, hasDocument, given>>

\* setTimeout that stores whatever number it is given
setTimeoutAsGiven(c, seconds) == [c EXCEPT !.defaultTimeout = <<seconds>>]

\* setTimeout(seconds) on a controller
setTimeout(c, seconds) ==
    [c EXCEPT !.defaultTimeout = IF seconds > 0 THEN <<seconds>> ELSE Null]

SetTimeout(i, seconds) ==
    /\ ctl' = [ctl EXCEPT ![i] = setTimeout(ctl[i], seconds)]
    /\ event' = Ev("setTimeout", 0, "", [seconds |-> seconds])
    /\ UNCHANGED <<dom, dlg, timers, promise, calls, microtasks, prefersDark,
                   nshows, touched, hasDocument, given>>

\* the embedding application calls close(action) on controller i
Close(i, action) ==
    /\ Becomes(close(St, i, action))
    /\ event' = Input("close", 0, action, NoOptions)
    /\ touched' = TRUE
    /\ UNCHANGED nshows

\* the user clicks button b of dialog d: a disabled button dispatches no
\* click event, an enabled one reaches the document's click listener
Click(d, b) ==
    /\ microtasks = <<>>
    /\ d \in InDom(St)
    /\ b \in dlg[d].buttons
    /\ IF b \in dlg[d].disabled THEN Becomes(St) ELSE Becomes(clickListener(St, b))
    /\ event' = Input("click", d, b, dlg[d].opts)
    /\ touched' = TRUE
    /\ UNCHANGED nshows

\* the user toggles the confirmation checkbox of dialog d; the change
\* listener, once attached, calls toggleActionButtons(checked)
ToggleCheckbox(d) ==
    /\ microtasks = <<>>
    /\ d \in InDom(St)
    /\ dlg[d].checkbox
    /\ LET S1 == [St EXCEPT !.dlg[d].checked = ~@, !.dlg[d].toggled = TRUE]
       IN  IF dlg[d].listener
           THEN Becomes(toggleActionButtons(S1, S1.dlg[d].checked))
           ELSE Becomes(S1)
    /\ event' = Input("toggle", d, "", dlg[d].opts)
    /\ touched' = TRUE
    /\ UNCHANGED nshows

\* a timer's callback is a task: it runs when no microtask is left
Due(t) == t \in timers /\ t.due <= 0 /\ microtasks = <<>>

Without(t) == [St EXCEPT !.timers = @ \ {t}]

\* the deferred setupConfirmationCheckbox of show runs
SetupFires ==
    \E t \in timers :
        /\ Due(t) /\ t.kind = "setup"
        /\ Becomes(setupConfirmationCheckbox(Without(t)))
        /\ event' = Ev("setup", t.d, "", NoOptions)
        /\ UNCHANGED <<nshows, touched, hasDocument, given>>

\* the deferred startAutoDismissTimeout of show runs
ArmFires ==
    \E t \in timers :
        /\ Due(t) /\ t.kind = "arm"
        /\ Becomes(startAutoDismissTimeout(Without(t), t.owner, t.d, t.secs, t.d))
        /\ event' = Ev("arm", t.d, "", NoOptions)
        /\ UNCHANGED <<nshows, touched, hasDocument, given>>

\* the interval of startAutoDismissTimeout runs and stays scheduled
Tick ==
    \E t \in timers :
        /\ Due(t) /\ t.kind = "tick"
        /\ Becomes(tickCallback(
               [St EXCEPT !.timers = (@ \ {t}) \cup {[t EXCEPT !.due = TickMs]}],
               t.owner, t.d))
        /\ event' = Ev("tick", t.d, "", NoOptions)
        /\ UNCHANGED <<nshows, touched, hasDocument, given>>

\* the one-shot deadline of startAutoDismissTimeout runs
Deadline ==
    \E t \in timers :
        /\ Due(t) /\ t.kind = "deadline"
        /\ Becomes(deadlineCallback(Without(t), t.owner))
        /\ event' = Ev("deadline", t.d, "", NoOptions)
        /\ UNCHANGED <<nshows, touched, hasDocument, given>>

\* DeferMs of time pass; no timer is overdue
Advance ==
    /\ timers # {}
    /\ microtasks = <<>>
    /\ \A t \in timers : t.due > 0
    /\ timers' = {[t EXCEPT !.due = @ - DeferMs] : t \in timers}
    /\ event' = Ev("advance", 0, "", NoOptions)
    /\ UNCHANGED <<ctl, dom, dlg, promise, calls, microtasks, prefersDark,
                   nshows, touched, hasDocument, given>>

TimerStep == SetupFires \/ ArmFires \/ Tick \/ Deadline \/ Advance

----------------------------------------------------------------------------
(* Spec: the ambient controller under sequential reuse                     *)

C6Options == [showCancel |-> TRUE, showContinue |-> TRUE]

C6Amended == [showCancel |-> TRUE, showContinue |-> TRUE, requireConfirmation |-> FALSE]

LifecycleOptions ==
    {C6Options, C6Amended,
     [showSettings |-> TRUE, showHelp |-> TRUE, showDanger |-> TRUE],
     [timeout |-> 2],
     [timeout |-> 1, requireConfirmation |-> FALSE],
     [disabled |-> TRUE, timeout |-> 1]}

\* the options of the dialogs left to their timers
TimedOptions ==
    {[timeout |-> n] : n \in 1..MaxSeconds}
    \cup {[timeout |-> 1, showCancel |-> FALSE], [timeout |-> 1, disabled |-> TRUE]}

Next ==
    \/ \E o \in LifecycleOptions : Show("ambient", o)
    \/ Close("ambient", "cancel")
    \/ \E d \in Dialogs, b \in Buttons : Click(d, b)
    \/ \E d \in Dialogs : ToggleCheckbox(d)
    \/ SetupFires
    \/ ArmFires
    \/ Tick
    \/ Deadline
    \/ Advance

Spec == Init /\ [][Next]_vars

----------------------------------------------------------------------------
(* Untouched: dialogs that nobody clicks, toggles or closes                *)

NextUntouched ==
    \/ \E o \in TimedOptions : Show("ambient", o)
    \/ SetupFires
    \/ ArmFires
    \/ Tick
    \/ Deadline
    \/ Advance

\* the browser runs due timers and time passes
Untouched == Init /\ [][NextUntouched]_vars /\ WF_vars(TimerStep)

----------------------------------------------------------------------------
(* OwnInstance: a page where the caller also constructs its own controller *)

OwnOptions == {[requireConfirmation |-> FALSE], [timeout |-> 1]}

NextOwn ==
    \/ \E i \in Instances, o \in OwnOptions : Show(i, o)
    \/ \E i \in Instances : Close(i, "cancel")
    \/ \E d \in Dialogs, b \in Buttons : Click(d, b)
    \/ \E d \in Dialogs : ToggleCheckbox(d)
    \/ SetupFires
    \/ ArmFires
    \/ Tick
    \/ Deadline
    \/ Advance

OwnInstance == Init /\ [][NextOwn]_vars

----------------------------------------------------------------------------
(* Timeouts: every way of supplying a timeout, with the global default     *)
(* set at any moment; the dialogs are left to their timers                 *)

Field(k, vals) == {NoOptions} \cup {[x \in {k} |-> v] : v \in vals}

Seconds == -1..MaxSeconds

TimeoutOptions ==
    {a @@ b @@ c : a \in Field("timeout", Seconds),
                   b \in Field("autoDismissTimeout", BOOLEAN),
                   c \in Field("autoDismissTimeoutSeconds", Seconds)}

NextTimeouts ==
    \/ \E o \in TimeoutOptions : Show("ambient", o)
    \/ \E n \in Seconds : SetTimeout("ambient", n)
    \/ SetupFires
    \/ ArmFires
    \/ Tick
    \/ Deadline
    \/ Advance

Timeouts == Init /\ [][NextTimeouts]_vars

----------------------------------------------------------------------------
(* Themes: every per-call theme and deprecated flag, with the global theme *)
(* set and the colour scheme of the operating system switched at any       *)
(* moment                                                                  *)

ThemeOptions ==
    {a @@ b : a \in Field("theme", ThemeValues), b \in Field("darkTheme", BOOLEAN)}

\* the strings passed to setTheme
ThemeArguments == ThemeValues \cup {"blue", ""}

NextThemes ==
    \/ \E o \in ThemeOptions : Show("ambient", o)
    \/ \E v \in ThemeArguments : SetTheme("ambient", v)
    \/ PreferenceChanges
    \/ Close("ambient", "cancel")
    \/ SetupFires
    \/ Advance

Themes == Init /\ [][NextThemes]_vars

----------------------------------------------------------------------------
(* Settings: per-call options against the global settings; each setter is  *)
(* called at any moment with a value other than the constructor's default  *)

\* every per-call override at once
AllOverrides ==
    [language |-> "de", theme |-> "dark", timeout |-> 1,
     soundPath |-> <<"a.wav">>, playSound |-> TRUE, requireConfirmation |-> FALSE]

SettingsOptions == {NoOptions, AllOverrides}

WrapperOverrides == [language |-> "de", timeout |-> 1]

NextSettings ==
    \/ nshows < MaxSettingsShows /\ \E o \in SettingsOptions : Show("ambient", o)
    \/ /\ nshows < MaxSettingsShows
       /\ \E w \in Wrappers : ShowWrapper("ambient", w, WrapperOverrides)
    \/ Resume
    \/ SetLanguage("ambient", "tr")
    \/ SetTheme("ambient", "auto")
    \/ SetTimeout("ambient", 2)
    \/ SetSoundPath("ambient", "b.wav")
    \/ Close("ambient", "cancel")
    \/ SetupFires
    \/ ArmFires
    \/ Tick
    \/ Deadline
    \/ Advance

Settings == Init /\ [][NextSettings]_vars

----------------------------------------------------------------------------
(* Texts: show with and without a per-call language and with and without   *)
(* texts of the caller, the global language set at any moment              *)

CallerTexts ==
    [title |-> <<"caller", "title">>, message |-> <<"caller", "message">>,
     confirmationText |-> <<"caller", "confirmation">>,
     confirmButtonText |-> <<"caller", "confirm">>,
     cancelButtonText |-> <<"caller", "cancel">>]

TextOptions ==
    {a @@ b @@ [showSettings |-> TRUE, showHelp |-> TRUE] :
        a \in Field("language", Languages),
        b \in {NoOptions, CallerTexts, [title |-> <<"caller", "title">>]}}

NextTexts ==
    \/ \E o \in TextOptions : Show("ambient", o)
    \/ Resume
    \/ \E l \in Languages : SetLanguage("ambient", l)
    \/ Close("ambient", "cancel")
    \/ SetupFires
    \/ Advance

Texts == Init /\ [][NextTexts]_vars

----------------------------------------------------------------------------
(* Wrapped: the convenience wrappers called with no text of the caller,    *)
(* with and without a per-call language                                    *)

NextWrapped ==
    \/ \E w \in Wrappers, o \in Field("language", BuiltIn) :
          ShowWrapper("ambient", w, o)
    \/ Resume
    \/ \E l \in BuiltIn : SetLanguage("ambient", l)
    \/ Close("ambient", "cancel")
    \/ SetupFires
    \/ Advance

Wrapped == Init /\ [][NextWrapped]_vars

----------------------------------------------------------------------------
(* Lookups: t(key, lang) for tables with and without the key               *)

\* the keys a Turkish table of the lookups has, out of three English keys,
\* a key of its own and a string at the top level
PartialKeys ==
    SUBSET {<<"buttons", "continue">>, <<"buttons", "cancel">>,
            <<"titles", "confirmation">>}
    \cup {{<<"extras", "note">>}, {<<"buttons">>}, LocaleKeys}

\* this.locales: the English table, alone or with a Turkish table
LocaleStores ==
    {[l \in {"en"} |-> getLocale("en")]}
    \cup {[l \in {"en", "tr"} |-> IF l = "en" THEN getLocale("en") ELSE Table("tr", K)] :
             K \in PartialKeys}

LookupKeys ==
    {<<"buttons", "continue">>, <<"buttons", "cancel">>, <<"titles", "confirmation">>,
     <<"buttons">>, <<"buttons", "continue", "x">>, <<"buttons", "nope">>,
     <<"nope", "x">>, <<"extras", "note">>, <<"toString">>}

LookupLanguages == {"", "en", "tr", "xx"}

InitLookups ==
    /\ \E store \in LocaleStores : \E lang \in DOMAIN store :
          ctl = [i \in Instances |->
                    [NewController EXCEPT !.locales = store, !.currentLanguage = lang]]
    /\ dom = <<>>
    /\ dlg = [d \in Dialogs |-> NoDialog]
    /\ timers = {}
    /\ promise = [d \in Dialogs |-> "none"]
    /\ calls = [d \in Dialogs |-> 0]
    /\ microtasks = <<>>
    /\ prefersDark = FALSE
    /\ nshows = 0
    /\ event = Ev("init", 0, "", NoOptions)
    /\ touched = FALSE
    /\ hasDocument = TRUE
    /\ given = NoOptions

NextLookups ==
    \E key \in LookupKeys, lang \in LookupLanguages : Translate("ambient", key, lang)

Lookups == InitLookups /\ [][NextLookups]_vars

----------------------------------------------------------------------------
(* Loads: languages loaded in any order and any number of times, between   *)
(* lookups                                                                 *)

NextLoads ==
    \/ \E l \in Languages : LoadLocale("ambient", l)
    \/ \E key \in LookupKeys, lang \in LookupLanguages : Translate("ambient", key, lang)

Loads == Init /\ [][NextLoads]_vars

----------------------------------------------------------------------------
(* Disabled: dialogs shown with disabled: true, with every value of        *)
(* requireConfirmation and with the default and with all five buttons      *)

AllButtons ==
    [showCancel |-> TRUE, showContinue |-> TRUE, showSettings |-> TRUE,
     showHelp |-> TRUE, showDanger |-> TRUE]

DisabledOptions ==
    {a @@ b @@ c : a \in Field("disabled", {TRUE}),
                   b \in Field("requireConfirmation", BOOLEAN),
                   c \in {NoOptions, AllButtons}}

NextDisabled ==
    \/ \E o \in DisabledOptions : Show("ambient", o)
    \/ Close("ambient", "cancel")
    \/ \E d \in Dialogs, b \in Buttons : Click(d, b)
    \/ \E d \in Dialogs : ToggleCheckbox(d)
    \/ SetupFires
    \/ Advance

Disabled == Init /\ [][NextDisabled]_vars

----------------------------------------------------------------------------
(* Constructed: the caller constructs its own controller with options and  *)
(* shows dialogs on it, with and without sound                             *)

ConstructorOptions ==
    {a @@ b @@ c @@ e : a \in Field("language", {"tr", "xx"}),
                        b \in Field("theme", ThemeValues),
                        c \in Field("timeout", {0, 1}),
                        e \in Field("soundPath", {<<"c.wav">>})}

SoundOptions ==
    {NoOptions, [playSound |-> TRUE],
     [playSound |-> TRUE, soundPath |-> <<"a.wav">>]}

InitConstructed ==
    /\ \E o \in ConstructorOptions :
          /\ given = o
          /\ ctl = [i \in Instances |->
                       IF i = "own" THEN constructor(o) ELSE NewController]
    /\ dom = <<>>
    /\ dlg = [d \in Dialogs |-> NoDialog]
    /\ timers = {}
    /\ promise = [d \in Dialogs |-> "none"]
    /\ calls = [d \in Dialogs |-> 0]
    /\ microtasks = <<>>
    /\ prefersDark = FALSE
    /\ nshows = 0
    /\ event = Ev("new", 0, "", NoOptions)
    /\ touched = FALSE
    /\ hasDocument = TRUE

NextConstructed ==
    \/ \E o \in SoundOptions : Show("own", o)
    \/ Close("own", "cancel")
    \/ SetupFires
    \/ ArmFires
    \/ Tick
    \/ Deadline
    \/ Advance

Constructed == InitConstructed /\ [][NextConstructed]_vars

----------------------------------------------------------------------------
(* Headless: the script runs where there is neither window nor document;   *)
(* the caller constructs its own controller                                *)

HeadlessOptions ==
    {a @@ b @@ c @@ e : a \in Field("language", {"tr"}),
                        b \in Field("timeout", {1}),
                        c \in Field("requireConfirmation", {FALSE}),
                        e \in Field("playSound", {TRUE})}

InitHeadless ==
    /\ ctl = [i \in Instances |-> NewController]
    /\ dom = <<>>
    /\ dlg = [d \in Dialogs |-> NoDialog]
    /\ timers = {}
    /\ promise = [d \in Dialogs |-> "none"]
    /\ calls = [d \in Dialogs |-> 0]
    /\ microtasks = <<>>
    /\ prefersDark = FALSE
    /\ nshows = 0
    /\ event = Ev("new", 0, "", NoOptions)
    /\ touched = FALSE
    /\ hasDocument = FALSE
    /\ given = NoOptions

NextHeadless ==
    \/ \E o \in HeadlessOptions : Show("own", o)
    \/ Resume
    \/ Close("own", "cancel")

Headless == InitHeadless /\ [][NextHeadless]_vars

----------------------------------------------------------------------------
(* Defaults: a controller constructed with or without a timeout, whose     *)
(* default timeout is set at any moment, between and during shows          *)

InitDefaults ==
    /\ \E o \in Field("timeout", Seconds) :
          /\ given = o
          /\ ctl = [i \in Instances |->
                       IF i = "own" THEN constructor(o) ELSE NewController]
    /\ dom = <<>>
    /\ dlg = [d \in Dialogs |-> NoDialog]
    /\ timers = {}
    /\ promise = [d \in Dialogs |-> "none"]
    /\ calls = [d \in Dialogs |-> 0]
    /\ microtasks = <<>>
    /\ prefersDark = FALSE
    /\ nshows = 0
    /\ event = Ev("new", 0, "", NoOptions)
    /\ touched = FALSE
    /\ hasDocument = TRUE

NextDefaults ==
    \/ \E n \in Seconds : SetTimeout("own", n)
    \/ Show("own", [requireConfirmation |-> FALSE])
    \/ Close("own", "cancel")
    \/ ArmFires
    \/ Tick
    \/ Deadline
    \/ Advance

Defaults == InitDefaults /\ [][NextDefaults]_vars

----------------------------------------------------------------------------
(* Unaided: dialogs that end by the user or by a timer only; the embedding *)
(* application never calls close                                           *)

UnaidedOptions ==
    {NoOptions, [timeout |-> 1, disabled |-> TRUE],
     [showCancel |-> FALSE, showContinue |-> FALSE],
     [disabled |-> TRUE, requireConfirmation |-> FALSE]}

NextUnaided ==
    \/ \E o \in UnaidedOptions : Show("ambient", o)
    \/ \E d \in Dialogs, b \in Buttons : Click(d, b)
    \/ \E d \in Dialogs : ToggleCheckbox(d)
    \/ SetupFires
    \/ ArmFires
    \/ Tick
    \/ Deadline
    \/ Advance

Unaided == Init /\ [][NextUnaided]_vars

----------------------------------------------------------------------------
(* Blanks: show with text fields, icon and language absent, empty or given *)

BlankOptions ==
    {a @@ b @@ c @@ e : a \in Field("title", {<<>>, <<"caller", "title">>}),
                        b \in Field("confirmationText", {<<>>}),
                        c \in Field("icon", {""}),
                        e \in Field("language", {"tr"})}

NextBlanks ==
    \/ \E o \in BlankOptions : Show("ambient", o)
    \/ Resume
    \/ Close("ambient", "cancel")
    \/ SetupFires
    \/ Advance

Blanks == Init /\ [][NextBlanks]_vars

----------------------------------------------------------------------------
(* Reentrant: show is also called while a dialog is still open            *)

ReentrantOptions ==
    {NoOptions, [requireConfirmation |-> FALSE], [timeout |-> 1]}

NextReentrant ==
    \/ \E o \in ReentrantOptions : Show("ambient", o)
    \/ \E o \in ReentrantOptions : ShowWhileOpen("ambient", o)
    \/ Close("ambient", "cancel")
    \/ \E d \in Dialogs, b \in Buttons : Click(d, b)
    \/ SetupFires
    \/ ArmFires
    \/ Tick
    \/ Deadline
    \/ Advance

Reentrant == Init /\ [][NextReentrant]_vars

----------------------------------------------------------------------------
(* Claims                                                                  *)

Open(d) == d \in InDom(St)
Closed(d) == d <= nshows /\ ~Open(d)
IsCountdown(t) == t.kind \in {"tick", "deadline"}

\* C1: the promise of every show call is resolved exactly once: its resolve
\* function is not invoked while its dialog is open, has been invoked once
\* when the dialog is closed, and no later close, tick or deadline invokes
\* it again.
C1_ResolvedExactlyOnce ==
    \A d \in Dialogs :
        /\ calls[d] <= 1
        /\ promise[d] \in ModalResult <=> calls[d] = 1
        /\ Open(d) => calls[d] = 0 /\ promise[d] = "pending"
        /\ Closed(d) => calls[d] = 1

\* a deadline created for dialog 1 has run after a click or close(continue)
\* resolved dialog 1
C1_Witness ==
    /\ promise[1] = "continue" /\ calls[1] = 1
    /\ event.op = "deadline" /\ event.d = 1

\* C2: close called while the controller is Idle invokes no resolver and
\* leaves every field of the controller unchanged.
C2_IdleCloseChangesNothing ==
    [][(Idle("ambient") /\ event'.op = "close")
          => (ctl' = ctl /\ calls' = calls /\ promise' = promise)]_vars

\* C3: once a dialog is closed, no tick timer and no deadline timer created
\* for it is armed.
C3_NoTimerAfterClose ==
    \A t \in timers : IsCountdown(t) => Open(t.d)

\* C4: without any user interaction or programmatic close, a dialog whose
\* configuration has a timeout n > 0 is eventually resolved with 'cancel',
\* the resolution happens when the n seconds of its deadline have elapsed,
\* and once it is resolved no tick or deadline stays armed.
C4_TimeoutResolvesCancel ==
    /\ \A d \in Dialogs :
          (Open(d) /\ dlg[d].config.autoDismissTimeout
                   /\ dlg[d].config.autoDismissTimeoutSeconds > 0)
             ~> (promise[d] = "cancel" \/ touched)
    /\ [][\A d \in Dialogs :
            (~touched' /\ promise[d] = "pending" /\ promise'[d] # "pending")
               => /\ promise'[d] = "cancel"
                  /\ \E t \in timers :
                        /\ t.kind = "deadline" /\ t.d = d /\ t.due = 0
                        /\ t.secs = dlg[d].config.autoDismissTimeoutSeconds]_vars
    /\ [](~touched /\ dom = <<>> => \A t \in timers : ~IsCountdown(t))

\* the tick that brings the countdown to 0 has closed an untouched dialog
C4_Witness ==
    /\ ~touched /\ promise[1] = "cancel"
    /\ event.op = "tick" /\ event.d = 1
    /\ ctl["ambient"].remainingSeconds = 0

\* the event of a click that is the first interaction of the run
FirstClick(d, b, o) ==
    [op |-> "click", d |-> d, b |-> b, o |-> o, first |-> TRUE, threw |-> FALSE]

Clickable(d, b) == b \in dlg[d].buttons /\ b \notin dlg[d].disabled

\* C5: on every controller, also one the caller constructed, a click on an
\* enabled button of its open dialog closes the dialog and resolves its
\* promise with the button's action.
C5_ClickResolvesAnyInstance ==
    [][\A d \in Dialogs, b \in Buttons :
          (Open(d) /\ Clickable(d, b) /\ event'.op = "click" /\ event'.d = d /\ event'.b = b)
             => (d \notin InDom(St)' /\ promise'[d] = b)]_vars

\* C6: show({title, message, showCancel: true, showContinue: true}) followed
\* by nothing but a click on the continue control resolves with 'continue'.
C6_ContinueClickResolves ==
    [][\A d \in Dialogs :
          (Open(d) /\ event' = FirstClick(d, "continue", C6Options))
             => promise'[d] = "continue"]_vars

\* C6 as amended: with requireConfirmation: false added to those options, on
\* the controller window.asyncModal, the continue control is enabled while
\* the dialog is untouched and a click on it as the only interaction
\* resolves with 'continue'.
C6_ContinueClickResolvesUnconfirmed ==
    /\ [](\A d \in Dialogs :
            (Open(d) /\ dlg[d].opts = C6Amended /\ ~touched)
               => Clickable(d, "continue"))
    /\ [][\A d \in Dialogs :
            (Open(d) /\ event' = FirstClick(d, "continue", C6Amended))
               => (promise'[d] = "continue" /\ d \notin InDom(St)')]_vars

\* the only interaction with a dialog shown with the amended options was a
\* click on continue, and it resolved with 'continue'
C6_Witness ==
    /\ event = FirstClick(1, "continue", C6Amended)
    /\ promise[1] = "continue" /\ calls[1] = 1

Unconfirmed(d) == Open(d) /\ dlg[d].config.requireConfirmation /\ ~dlg[d].toggled

\* C7: while a dialog with requireConfirmation is open and its checkbox was
\* never toggled, the continue control is disabled and no click resolves
\* with 'continue'; each shown cancel, settings, help and danger button is
\* enabled unless disabled was set, and a click on it resolves with its own
\* action.
C7_ContinueGatedOthersClickable ==
    /\ [](\A d \in Dialogs : Unconfirmed(d) =>
            /\ "continue" \in dlg[d].buttons => "continue" \in dlg[d].disabled
            /\ ~dlg[d].config.disabled =>
                   \A b \in dlg[d].buttons \ {"continue"} : Clickable(d, b))
    /\ [][\A d \in Dialogs, b \in Buttons :
            (Unconfirmed(d) /\ event'.op = "click" /\ event'.d = d /\ event'.b = b)
               => /\ promise'[d] # "continue"
                  /\ (b \in dlg[d].buttons \ {"continue"} /\ ~dlg[d].config.disabled)
                        => promise'[d] = b]_vars

\* a click on the settings button of a dialog that requires confirmation,
\* with the checkbox never toggled, resolved with 'settings'
C7_Witness ==
    /\ event = FirstClick(1, "settings",
                         [showSettings |-> TRUE, showHelp |-> TRUE, showDanger |-> TRUE])
    /\ promise[1] = "settings"

\* the deferred startAutoDismissTimeout that show call d scheduled
ArmOf(d) == {t \in timers : t.kind = "arm" /\ t.d = d}

\* C8: the countdown of a shown dialog is armed if and only if the timeout
\* show resolved is greater than 0, an armed countdown has a duration
\* greater than 0, and a per-call timeout of zero or less never arms one.
C8_ArmedIffPositiveTimeout ==
    event.op = "show" =>
        LET o  == event.o
            rt == resolveTimeout(o, ctl["ambient"].defaultTimeout)
        IN  /\ ArmOf(event.d) # {} <=> (rt # Null /\ rt[1] > 0)
            /\ \A t \in ArmOf(event.d) : t.secs > 0
            /\ (Has(o, "timeout") /\ o.timeout <= 0) => ArmOf(event.d) = {}

\* C9: a per-call timeout alone decides arming and duration when it is
\* given; otherwise the deprecated pair does when its flag is set, with 15
\* seconds when no seconds are given; otherwise the global default does.
C9_TimeoutPriority ==
    event.op = "show" =>
        LET o  == event.o
            d  == event.d
            dt == ctl["ambient"].defaultTimeout
            ArmedWith(n) == ArmOf(d) # {} /\ \A t \in ArmOf(d) : t.secs = n
            legacy == Has(o, "autoDismissTimeout") /\ o.autoDismissTimeout
        IN  /\ Has(o, "timeout") =>
                 IF o.timeout > 0 THEN ArmedWith(o.timeout) ELSE ArmOf(d) = {}
            /\ (~Has(o, "timeout") /\ legacy /\ ~Has(o, "autoDismissTimeoutSeconds"))
                 => ArmedWith(DefaultSeconds)
            /\ (~Has(o, "timeout") /\ legacy /\ Has(o, "autoDismissTimeoutSeconds")
                  /\ o.autoDismissTimeoutSeconds > 0)
                 => ArmedWith(o.autoDismissTimeoutSeconds)
            /\ o = NoOptions =>
                 IF dt # Null THEN ArmedWith(dt[1]) ELSE ArmOf(d) = {}

Legacy(n) == [autoDismissTimeout |-> TRUE, autoDismissTimeoutSeconds |-> n]
Modern(n) == [timeout |-> n]

ComputedKeys ==
    {"showCancel", "showContinue", "showSettings", "showHelp", "showDanger",
     "disabled", "requireConfirmation", "autoDismissTimeout",
     "autoDismissTimeoutSeconds"}

\* a state without the record of the options as passed
Behaviour(S) ==
    [S EXCEPT !.dlg = [d \in Dialogs |->
        [S.dlg[d] EXCEPT
            !.opts = NoOptions,
            !.config = [k \in DOMAIN S.dlg[d].config \cap ComputedKeys
                          |-> S.dlg[d].config[k]]]]]

\* C10: for every n > 0 and every global default, the state that
\* show({autoDismissTimeout: true, autoDismissTimeoutSeconds: n}) produces
\* is the state show({timeout: n}) produces from the same state: the
\* countdown is armed with n seconds as its initial value; when either is
\* armed the deadline is n seconds away, and a timer resolves with 'cancel'.
C10_LegacyPairEqualsTimeout ==
    [][\A n \in 1..MaxSeconds :
         /\ (event'.op = "show" /\ event'.o = Legacy(n))
              => /\ Behaviour(St') = Behaviour(show(St, "ambient", Modern(n), event'.d))
                 /\ \E t \in timers' :
                       t.kind = "arm" /\ t.d = event'.d /\ t.secs = n /\ t.due = DeferMs
                 /\ ctl'["ambient"].remainingSeconds = n
         /\ \A d \in Dialogs :
              (event' = Ev("arm", d, "", NoOptions) /\ Open(d)
                 /\ (dlg[d].opts = Legacy(n) \/ dlg[d].opts = Modern(n)))
              => /\ \E t \in timers' :
                       t.kind = "deadline" /\ t.d = d /\ t.due = n * 1000
                 /\ \E t \in timers' : t.kind = "tick" /\ t.d = d /\ t.due = TickMs
         /\ \A d \in Dialogs :
              (event'.op \in {"tick", "deadline"} /\ promise[d] = "pending"
                 /\ promise'[d] # "pending")
              => promise'[d] = "cancel"]_vars

\* a dialog was shown with the deprecated pair while a different global
\* default was set, and its countdown is being armed with the pair's seconds
C10_Witness ==
    /\ event = Ev("show", 1, "", Legacy(2))
    /\ ctl["ambient"].defaultTimeout = <<1>>
    /\ \E t \in ArmOf(1) : t.secs = 2
    /\ ctl["ambient"].remainingSeconds = 2

\* C11: for every per-call theme, deprecated flag, global theme and colour
\* scheme of the operating system, the theme in the configuration of a shown
\* dialog is 'dark' or 'light', never 'auto', and the dialog carries the
\* class of that theme.
C11_StoredThemeIsDarkOrLight ==
    \A d \in Dialogs :
        Open(d) => /\ dlg[d].config.theme \in {"dark", "light"}
                   /\ dlg[d].themeClass \in {"dark-theme", "light-theme"}

\* a dialog shown with theme 'auto' under a dark colour scheme, while the
\* global theme is 'auto' too, stores 'dark'
C11_Witness ==
    /\ event.op = "show" /\ event.o = [theme |-> "auto"]
    /\ prefersDark /\ ctl["ambient"].theme = "auto"
    /\ dlg[event.d].config.theme = "dark"

\* C12: the theme of a shown dialog is the per-call theme when one is given,
\* otherwise the one the darkTheme flag stands for (true dark, false light)
\* when the flag is given, otherwise the global theme; 'auto' shows as the
\* colour scheme of the operating system.
C12_ThemePriority ==
    event.op = "show" =>
        LET o == event.o
            setting == IF Has(o, "theme") THEN o.theme
                       ELSE IF Has(o, "darkTheme")
                            THEN (IF o.darkTheme THEN "dark" ELSE "light")
                            ELSE ctl["ambient"].theme
            shown == IF setting = "auto"
                     THEN (IF prefersDark THEN "dark" ELSE "light")
                     ELSE setting
        IN  dlg[event.d].config.theme = shown

\* a per-call theme 'light' wins over the flag darkTheme: true and over the
\* global theme 'dark'
C12_Witness ==
    /\ event.op = "show" /\ event.o = [theme |-> "light", darkTheme |-> TRUE]
    /\ ctl["ambient"].theme = "dark"
    /\ dlg[event.d].config.theme = "light"

\* C13: setTheme(v) with v outside dark, light, auto throws and leaves the
\* global theme unchanged; with v one of the three it does not throw and
\* getTheme() returns v, 'auto' unresolved; no other operation changes what
\* getTheme() returns.
C13_SetThemeValidates ==
    [][/\ event'.op = "setTheme" =>
             IF event'.b \in {"dark", "light", "auto"}
             THEN ~event'.threw /\ getTheme(ctl'["ambient"]) = event'.b
             ELSE event'.threw /\ getTheme(ctl'["ambient"]) = getTheme(ctl["ambient"])
       /\ event'.op # "setTheme" =>
             getTheme(ctl'["ambient"]) = getTheme(ctl["ambient"])]_vars

\* setTheme('blue') threw while the global theme was 'auto', and a dialog
\* shown before it is still open
C13_Witness ==
    /\ event.op = "setTheme" /\ event.b = "blue" /\ event.threw
    /\ getTheme(ctl["ambient"]) = "auto"
    /\ dom # <<>>

\* the global settings of a controller
Global(c) == <<c.currentLanguage, c.theme, c.defaultTimeout, c.soundPath>>

Setters == {"setLanguage", "setTheme", "setTimeout", "setSoundPath"}

\* C14: no show and no convenience wrapper, whatever its per-call language,
\* theme, timeout and soundPath, and no continuation, close, tick or
\* deadline changes the global language, theme, default timeout or sound
\* path; only the four setters do.
C14_OnlySettersChangeGlobals ==
    [][event'.op \notin Setters => Global(ctl'["ambient"]) = Global(ctl["ambient"])]_vars

\* a dialog shown with every per-call override is open with the overriding
\* values, its countdown pending, while the four global settings hold the
\* values the setters gave them
C14_Witness ==
    /\ event.op = "resume" /\ event.o = AllOverrides
    /\ dlg[event.d].config.language = "de" /\ dlg[event.d].config.theme = "dark"
    /\ dlg[event.d].sound = <<"a.wav">>
    /\ \E x \in ArmOf(event.d) : x.secs = 1
    /\ Global(ctl["ambient"]) = <<"tr", "auto", <<2>>, <<"b.wav">>>>

\* the string of a key in language L: from L's table when there is one,
\* otherwise the English string
Lookup(L, key) == (IF L \in BuiltIn THEN <<L>> ELSE <<"en">>) \o key

\* the keys of the texts show fills in
TextKeys ==
    [title |-> <<"defaults", "title">>, message |-> <<"defaults", "message">>,
     confirmationText |-> <<"defaults", "confirmationText">>,
     confirmButtonText |-> <<"buttons", "continue">>,
     cancelButtonText |-> <<"buttons", "cancel">>]

\* C15: when show has rendered a dialog, every text field the caller did not
\* supply (title, message, confirmation text, confirm and cancel labels) and
\* the settings and help labels are the strings of the effective language:
\* the per-call language when one is given, otherwise the global language.
C15_TextsInEffectiveLanguage ==
    (event.op \in {"show", "resume"} /\ Open(event.d)) =>
        LET o == event.o
            d == event.d
            L == IF Has(o, "language") THEN o.language
                                       ELSE ctl["ambient"].currentLanguage
        IN  /\ \A f \in DOMAIN TextKeys :
                  dlg[d].config[f] = IF Has(o, f) THEN o[f] ELSE Lookup(L, TextKeys[f])
            /\ dlg[d].text["title"] = dlg[d].config.title
            /\ dlg[d].text["message"] = dlg[d].config.message
            /\ dlg[d].text["confirmationText"] = dlg[d].config.confirmationText
            /\ dlg[d].text["continue"] = dlg[d].config.confirmButtonText
            /\ dlg[d].text["cancel"] = dlg[d].config.cancelButtonText
            /\ dlg[d].text["settings"] = Lookup(L, <<"buttons", "settings">>)
            /\ dlg[d].text["help"] = Lookup(L, <<"buttons", "help">>)

\* a dialog shown with the per-call language 'tr' and only a title, while
\* the global language is 'de', has the caller's title and a Turkish message
C15_Witness ==
    /\ event.op = "resume"
    /\ event.o = [language |-> "tr", title |-> <<"caller", "title">>,
                  showSettings |-> TRUE, showHelp |-> TRUE]
    /\ ctl["ambient"].currentLanguage = "de"
    /\ dlg[event.d].text["title"] = <<"caller", "title">>
    /\ dlg[event.d].text["message"] = <<"tr", "defaults", "message">>
    /\ dlg[event.d].text["settings"] = <<"tr", "buttons", "settings">>

\* C16: when a wrapper is called with a per-call built-in language L other
\* than the global language (its show call awaits the loading of L), every
\* text of the resulting dialog comes from L's table, on the first call with
\* L as on later ones.
C16_WrapperTextsInPerCallLanguage ==
    (event.op = "resume" /\ Open(event.d)) =>
        \A p \in DOMAIN dlg[event.d].text :
            dlg[event.d].text[p][1] = event.o.language

\* C17: showConfirmation() called with no argument while the global
\* language is a built-in language L renders L's titles.confirmation as the
\* title, L's defaults.message as the message and L's buttons.continue as
\* the label of the continue button.
C17_ConfirmationInGlobalLanguage ==
    (event.op = "showConfirmation" /\ event.o = NoOptions) =>
        LET L == ctl["ambient"].currentLanguage
            d == event.d
        IN  /\ dlg[d].text["title"] = <<L, "titles", "confirmation">>
            /\ dlg[d].text["message"] = <<L, "defaults", "message">>
            /\ dlg[d].text["continue"] = <<L, "buttons", "continue">>

\* after setLanguage('tr'), showConfirmation() rendered the Turkish title
C17_Witness ==
    /\ event.op = "showConfirmation" /\ event.o = NoOptions
    /\ ctl["ambient"].currentLanguage = "tr"
    /\ dlg[event.d].text["title"] = <<"tr", "titles", "confirmation">>

\* C18: t(key, lang) never raises and returns the string at the key in the
\* table of the requested language (lang, or the global language when none
\* is passed) when that table is loaded and has a string there, otherwise
\* the English string at the key, otherwise the dotted key itself.
C18_LookupFallsBackToEnglishThenKey ==
    event.op = "t" =>
        LET c    == ctl["ambient"]
            key  == event.o.key
            code == IF event.o.lang = "" THEN c.currentLanguage ELSE event.o.lang
            en   == c.locales["en"]
        IN  /\ ~event.threw
            /\ event.o.result =
                  IF code \in DOMAIN c.locales /\ key \in DOMAIN c.locales[code]
                  THEN c.locales[code][key]
                  ELSE IF key \in DOMAIN en THEN en[key]
                  ELSE <<"key">> \o key

\* a key the Turkish table lacks, although the table has its section, was
\* looked up in Turkish and came back in English
C18_Witness ==
    /\ event.op = "t" /\ event.o.lang = "tr"
    /\ event.o.key = <<"buttons", "continue">>
    /\ "tr" \in DOMAIN ctl["ambient"].locales
    /\ <<"buttons", "cancel">> \in DOMAIN ctl["ambient"].locales["tr"]
    /\ <<"buttons", "continue">> \notin DOMAIN ctl["ambient"].locales["tr"]
    /\ event.o.result = <<"en", "buttons", "continue">>

\* C19: whenever the controller is Idle after a resolution, its dialog
\* reference, resolver, tick handle and deadline handle are none and its
\* countdown value is 0.
C19_IdleFieldsEmpty ==
    (Idle("ambient") /\ \E d \in Dialogs : promise[d] \in ModalResult) =>
        /\ ctl["ambient"].currentModal = 0
        /\ ctl["ambient"].currentResolve = 0
        /\ ctl["ambient"].currentInterval = 0
        /\ ctl["ambient"].currentTimeout = 0
        /\ ctl["ambient"].remainingSeconds = 0

\* C20: right after show has rendered a dialog with disabled: true, every
\* button it rendered is disabled, whatever requireConfirmation is.
C20_DisabledDisablesEveryButton ==
    (event.op = "show" /\ Has(event.o, "disabled") /\ event.o.disabled) =>
        /\ Open(event.d)
        /\ dlg[event.d].buttons = Rendered(dlg[event.d].config)
        /\ dlg[event.d].disabled = dlg[event.d].buttons

\* a dialog with all five buttons, disabled: true and requireConfirmation:
\* false was rendered with all five disabled
C20_Witness ==
    /\ event.op = "show"
    /\ event.o = [disabled |-> TRUE, requireConfirmation |-> FALSE] @@ AllButtons
    /\ dlg[event.d].buttons = Buttons
    /\ dlg[event.d].disabled = Buttons

\* C21: toggling the confirmation checkbox of a dialog changes the enabled
\* state of its continue button at most: its cancel, settings, help and
\* danger buttons are enabled after the toggle exactly if they were enabled
\* before it, also in a dialog shown with disabled: true.
C21_ToggleChangesContinueOnly ==
    [][event'.op = "toggle" =>
          \A b \in Buttons \ {"continue"} :
              (b \in dlg'[event'.d].disabled) = (b \in dlg[event'.d].disabled)]_vars

\* C22: show({}) on a controller whose global settings are those the
\* constructor gives with no options renders a dialog with language 'en',
\* theme 'light', no countdown (none armed), confirmation required, icon
\* 'question', the cancel and continue buttons and no others, disabled
\* false and no sound.
C22_DefaultsOfShow ==
    (/\ event.op = "show" /\ event.o = NoOptions
     /\ Global(ctl["ambient"]) = Global(NewController)) =>
        LET cfg == dlg[event.d].config
        IN  /\ Open(event.d)
            /\ cfg.language = "en" /\ cfg.theme = "light"
            /\ dlg[event.d].themeClass = "light-theme"
            /\ ~cfg.autoDismissTimeout /\ ArmOf(event.d) = {}
            /\ ~\E x \in timers : IsCountdown(x)
            /\ cfg.requireConfirmation /\ dlg[event.d].checkbox
            /\ cfg.icon = "question"
            /\ cfg.showCancel /\ cfg.showContinue
            /\ ~cfg.showSettings /\ ~cfg.showHelp /\ ~cfg.showDanger
            /\ dlg[event.d].buttons = {"cancel", "continue"}
            /\ ~cfg.disabled /\ "cancel" \notin dlg[event.d].disabled
            /\ ~cfg.playSound /\ dlg[event.d].sound = Null

\* show({}) has opened a dialog on the untouched ambient controller while
\* the operating system prefers dark
C22_Witness ==
    /\ event.op = "show" /\ event.o = NoOptions
    /\ Global(ctl["ambient"]) = Global(NewController)
    /\ Open(event.d) /\ prefersDark
    /\ dlg[event.d].buttons = {"cancel", "continue"}

\* the value the constructor's option k has, or v when it was not given
Constructed_(k, v) == IF Has(given, k) THEN given[k] ELSE v

\* C23: each of the constructor's four options (language, theme, timeout,
\* soundPath) is stored as the corresponding global setting, and a show
\* with playSound and no per-call soundPath plays the constructor's
\* soundPath.
C23_ConstructorOptionsStored ==
    /\ event.op = "new" =>
          /\ ctl["own"].currentLanguage = Constructed_("language", "en")
          /\ ctl["own"].theme = Constructed_("theme", "light")
          /\ ctl["own"].defaultTimeout =
                IF Constructed_("timeout", 0) > 0 THEN <<given.timeout>> ELSE Null
          /\ ctl["own"].soundPath = Constructed_("soundPath", Null)
    /\ (/\ event.op = "show" /\ dlg[event.d].config.playSound
        /\ ~Has(event.o, "soundPath") /\ Has(given, "soundPath")) =>
          dlg[event.d].sound = given.soundPath

\* C24: where there is no document, the call to show throws its error at
\* the call (the error is not delivered later through the promise), and no
\* dialog is opened.
C24_NoSurfaceThrowsAtCall ==
    (event.op = "show" /\ ~hasDocument) =>
        /\ event.threw
        /\ promise[event.d] # "rejected"
        /\ dom = <<>> /\ dlg[event.d] = NoDialog

\* C25: every value a click or a timer resolves a promise with is one of
\* 'continue', 'cancel', 'settings', 'help', 'danger'; a click resolves
\* with the action of the clicked button, whose show flag is true in the
\* resolved dialog's configuration; a tick or a deadline resolves with
\* 'cancel' only.
C25_OutcomesOfClicksAndTimers ==
    [][\A d \in Dialogs :
          (/\ promise[d] = "pending" /\ promise'[d] # "pending"
           /\ event'.op \in {"click", "tick", "deadline"}) =>
              /\ promise'[d] \in ModalResult
              /\ event'.op = "click" =>
                    /\ promise'[d] = event'.b
                    /\ dlg[d].config[ShowFlag(event'.b)]
              /\ event'.op \in {"tick", "deadline"} => promise'[d] = "cancel"]_vars

\* a click on the settings button of a dialog shown with showSettings has
\* resolved it with 'settings', after an earlier dialog resolved with
\* 'cancel'
C25_Witness ==
    /\ event.op = "click" /\ event.b = "settings"
    /\ event.o = [showSettings |-> TRUE, showHelp |-> TRUE, showDanger |-> TRUE]
    /\ promise[event.d] = "settings"
    /\ \E d \in Dialogs : promise[d] = "cancel"

\* C26: loadLocale raises no error, and loading a code a second time leaves
\* the loaded tables as the first load left them; once a code without
\* locale data is loaded, a lookup under that code returns what the lookup
\* under 'en' returns, the English string of every key English has.
C26_LoadLocaleIdempotentFallsBack ==
    [][/\ event'.op = "loadLocale" =>
             /\ ~event'.threw
             /\ loadLocale(ctl'["ambient"], event'.b) = ctl'["ambient"]
             /\ (event.op = "loadLocale" /\ event.b = event'.b) => ctl' = ctl
       /\ (/\ event'.op = "t" /\ event'.o.lang = "xx"
           /\ "xx" \in DOMAIN ctl["ambient"].locales) =>
             /\ event'.o.result = t_(ctl["ambient"].locales,
                                     ctl["ambient"].currentLanguage,
                                     event'.o.key, "en")
             /\ event'.o.key \in LocaleKeys =>
                   event'.o.result = <<"en">> \o event'.o.key]_vars

\* 'xx' was loaded and the lookup of buttons.continue under 'xx' then
\* returned the English string
C26_Witness ==
    /\ event.op = "t" /\ event.o.lang = "xx"
    /\ event.o.key = <<"buttons", "continue">>
    /\ DOMAIN ctl["ambient"].locales = {"en", "xx"}
    /\ event.o.result = <<"en", "buttons", "continue">>

\* C27: under sequential reuse, a tick or a deadline that was created for
\* one dialog never closes another dialog, never resolves another dialog's
\* promise and never changes another dialog's cancel label.
C27_TimersOfOtherDialogHarmless ==
    [][event'.op \in {"tick", "deadline"} =>
          \A b \in Dialogs \ {event'.d} :
              /\ Open(b) => Open(b)'
              /\ promise'[b] = promise[b]
              /\ Open(b) => dlg'[b].label = dlg[b].label]_vars

\* C28: a close that runs on an open dialog does all of its steps within
\* the one call: when it returns both timer handles are cleared and no tick
\* or deadline of the controller is armed, the dialog is detached, the
\* stored resolver was invoked once more and settled its promise, and the
\* resolver reference is cleared; no timer callback runs in between.
C28_CloseIsOneStep ==
    [][(/\ ctl["ambient"].currentModal # 0
        /\ ctl'["ambient"].currentModal = 0) =>
          LET m == ctl["ambient"].currentModal
              r == ctl["ambient"].currentResolve
          IN  /\ event'.op \in {"close", "click", "tick", "deadline"}
              /\ ctl'["ambient"].currentTimeout = 0
              /\ ctl'["ambient"].currentInterval = 0
              /\ \A x \in timers' : ~IsCountdown(x)
              /\ m \in InDom(St) /\ m \notin InDom(St')
              /\ r # 0 /\ calls'[r] = calls[r] + 1
              /\ promise[r] = "pending"
              /\ promise'[r] = IF event'.op \in {"close", "click"} THEN event'.b
                                                                  ELSE "cancel"
              /\ ctl'["ambient"].currentResolve = 0]_vars

\* a click on cancel closed a dialog whose countdown had ticked once: the
\* promise is resolved and nothing of the countdown is left armed
C28_Witness ==
    /\ event.op = "click" /\ event.b = "cancel" /\ event.o = [timeout |-> 2]
    /\ promise[event.d] = "cancel" /\ calls[event.d] = 1
    /\ ctl["ambient"].remainingSeconds = 1
    /\ Idle("ambient")
    /\ \A x \in timers : ~IsCountdown(x)

\* the dialogs whose countdown is armed: their tick is scheduled
Armed == {d \in Dialogs : \E x \in timers : x.kind = "tick" /\ x.d = d}

\* C29: a dialog armed with a timeout n > 0 starts its countdown at n and
\* each tick takes 1 off, so that after k < n ticks the countdown is n - k:
\* while the dialog is open the countdown is between 1 and n, and its
\* cancel button shows the recorded original label followed by the one
\* current countdown; the tick that brings the countdown to 0 closes the
\* dialog with 'cancel'.
C29_CountdownAndLabel ==
    /\ [](\A d \in Armed :
             LET n == dlg[d].config.autoDismissTimeoutSeconds
                 remainingSeconds == ctl[dlg[d].owner].remainingSeconds
             IN  (Open(d) /\ n > 0) =>
                    /\ remainingSeconds \in 1..n
                    /\ "cancel" \in dlg[d].buttons =>
                          /\ dlg[d].originalText = d
                          /\ dlg[d].label = <<dlg[d].originalText, remainingSeconds>>)
    /\ [][\A d \in Dialogs :
             LET n == dlg[d].config.autoDismissTimeoutSeconds
             IN  /\ (event'.op = "arm" /\ event'.d = d /\ d \in InDom(St)) =>
                       ctl'["ambient"].remainingSeconds = n
                 /\ (event'.op = "tick" /\ event'.d = d /\ d \in InDom(St)) =>
                       /\ ctl'["ambient"].remainingSeconds =
                             ctl["ambient"].remainingSeconds - 1
                       /\ ctl'["ambient"].remainingSeconds > 0 =>
                             /\ d \in InDom(St') /\ promise'[d] = "pending"
                       /\ ctl'["ambient"].remainingSeconds = 0 =>
                             /\ d \notin InDom(St') /\ promise'[d] = "cancel"]_vars

\* C30: a show whose effective theme setting is 'auto' gets the theme of
\* the operating system's colour scheme as it is at that show, dark or
\* light, so that shows under different preferences get different themes;
\* neither the show nor a change of the preference changes the global
\* theme, which stays 'auto'.
C30_AutoResolvedAtEachShow ==
    [][/\ (event'.op = "show" /\ themeSetting(event'.o, ctl["ambient"]) = "auto") =>
             /\ dlg'[event'.d].config.theme = IF prefersDark THEN "dark" ELSE "light"
             /\ dlg'[event'.d].themeClass =
                    IF prefersDark THEN "dark-theme" ELSE "light-theme"
       /\ event'.op \in {"show", "preference", "close"} =>
             getTheme(ctl'["ambient"]) = getTheme(ctl["ambient"])]_vars

\* with the global theme 'auto', the second show was made with no options
\* after the preference had changed to dark, and its dialog is dark while
\* the global theme is still 'auto'
C30_Witness ==
    /\ event.op = "show" /\ event.d = 2 /\ event.o = NoOptions
    /\ prefersDark
    /\ getTheme(ctl["ambient"]) = "auto"
    /\ dlg[2].config.theme = "dark" /\ dlg[2].themeClass = "dark-theme"

\* C31: every show call that opened a dialog and whose promise is not yet
\* resolved is the call whose resolver the controller stores, also when
\* show was called again while a dialog was still open.
C31_NoOrphanedPromise ==
    \A d \in Dialogs :
        (promise[d] = "pending" /\ dlg[d].owner = "ambient" /\ Open(d)) =>
            ctl["ambient"].currentResolve = d

\* C32: while a dialog shown with requireConfirmation true and disabled
\* false is open, its continue button is enabled exactly when its
\* confirmation checkbox is checked, from the moment it is rendered and
\* also after a toggle made before the deferred listener setup has run.
C32_ContinueEnabledIffChecked ==
    \A d \in Dialogs :
        (/\ Open(d) /\ dlg[d].config.requireConfirmation /\ ~dlg[d].config.disabled
         /\ "continue" \in dlg[d].buttons) =>
            ("continue" \notin dlg[d].disabled) = dlg[d].checked

\* C33: in a dialog shown with disabled: true every rendered button stays
\* disabled whatever the user toggles, and no click resolves its promise:
\* it ends by a timer or by a programmatic close only.
C33_DisabledStaysDisabled ==
    /\ [](\A d \in Dialogs :
             (Open(d) /\ dlg[d].config.disabled) => dlg[d].disabled = dlg[d].buttons)
    /\ [][\A d \in Dialogs :
             (/\ d \in InDom(St) /\ dlg[d].config.disabled
              /\ promise[d] = "pending" /\ promise'[d] # "pending") =>
                 event'.op # "click"]_vars

\* C34: when a show call has failed for want of a document, the controller
\* is Idle as before the call: it stores no resolver and no dialog
\* reference, no timer is pending, and a later close(outcome) invokes no
\* resolver.
C34_FailedShowLeavesIdle ==
    /\ []((event.op \in {"show", "resume"} /\ promise[event.d] = "rejected") =>
             /\ ctl["own"].currentResolve = 0
             /\ ctl["own"].currentModal = 0
             /\ timers = {})
    /\ [][(event'.op = "close" /\ ~hasDocument) => calls' = calls]_vars

\* the fields of the configuration that hold a text
TextFields ==
    {"title", "message", "confirmationText", "confirmButtonText", "cancelButtonText"}

\* C35: the configuration of every rendered dialog is fully populated: it
\* has every field, and a text field, the icon and the language that the
\* options leave out or give as an empty string hold the default of the
\* priority order, never an empty value.
C35_ConfigFullyPopulated ==
    (event.op \in {"show", "resume"} /\ Open(event.d)) =>
        LET cfg == dlg[event.d].config
        IN  /\ DOMAIN defaultConfig(NoOptions, NewController, "en", Null) \cup {"theme"}
                  \subseteq DOMAIN cfg
            /\ \A k \in TextFields : cfg[k] # <<>>
            /\ cfg.icon # "" /\ cfg.language # "" /\ cfg.theme # ""

\* C36: after the constructor and after every setTimeout, whatever number it
\* is given, the global default timeout is none or a number greater than 0:
\* the constructor and setTimeout(s) store s when s > 0 and none when
\* s <= 0, and nothing else changes it.
C36_DefaultTimeoutNoneOrPositive ==
    /\ [](LET defaultTimeout == ctl["own"].defaultTimeout
          IN  /\ defaultTimeout = Null \/ defaultTimeout[1] > 0
              /\ event.op = "new" =>
                    defaultTimeout = IF Has(given, "timeout") /\ given.timeout > 0
                                     THEN <<given.timeout>> ELSE Null)
    /\ [][ctl'["own"].defaultTimeout =
             IF event'.op = "setTimeout"
             THEN (IF event'.o.seconds > 0 THEN <<event'.o.seconds>> ELSE Null)
             ELSE ctl["own"].defaultTimeout]_vars

\* a controller constructed with a timeout of 1 second has its default
\* timeout disabled by setTimeout(-1)
C36_Witness ==
    /\ event.op = "setTimeout" /\ event.o = [seconds |-> -1]
    /\ given = [timeout |-> 1]
    /\ ctl["own"].defaultTimeout = Null

\* C37: an open dialog can always still be resolved by the user or by a
\* timer alone.  Where close is never called from outside, a resolution
\* needs a step of the user or of a timer that changes something, so in
\* every state an open dialog has an enabled button, or a checkbox whose
\* listener is or will be attached, or a timer pending.
C37_ResolutionStaysReachable ==
    \A d \in Dialogs :
        Open(d) =>
            \/ dlg[d].buttons \ dlg[d].disabled # {}
            \/ dlg[d].checkbox
            \/ timers # {}

\* C38: whenever the cancel button of an open dialog shows a countdown, on
\* arming and after every tick, the seconds suffix of the label is the
\* string of the dialog's effective language, the per-call language when
\* one was given, as the rest of the dialog's text.
C38_SuffixInEffectiveLanguage ==
    \A d \in Dialogs :
        (Open(d) /\ Len(dlg[d].label) = 2) =>
            dlg[d].suffix = Lookup(dlg[d].config.language, <<"timeout", "seconds">>)

====
